---- MODULE Spec2Model ----
(***************************************************************************)
(* Model of backend/app/reliable_clipper.py: ReliableIntelligentClipper.   *)
(* generate_intelligent_clips obtains a duration, plans segments           *)
(* (_generate_strategic_segments, _remove_overlaps) and scores each        *)
(* segment (_analyze_segment: _analyze_with_openrouter with a fallback to  *)
(* _enhanced_fallback_analysis).                                           *)
(*                                                                         *)
(* Times are exact rationals: an integer number of 1/Den seconds, with Den *)
(* a multiple of every target clip count (3..8), of 5 (the 0.2 factor) and *)
(* of the number of grid steps of the uniform draw, so that every division *)
(* the planner makes is exact on the modelled inputs.                      *)
(***************************************************************************)
EXTENDS Integers, Sequences, FiniteSets, TLC

VARIABLES pc, openrouter_available, duration, segments, clips, outcome,
          externalCalls, returned, raised, candidates, pending, cleaned

vars == <<pc, openrouter_available, duration, segments, clips, outcome,
          externalCalls, returned, raised, candidates, pending, cleaned>>

-----------------------------------------------------------------------------
(* Bounds of the model: the grids on which the random draws are enumerated *)

\* random.uniform(a, b) is enumerated at a + k*(b-a)/OffsetSteps, k = 0..OffsetSteps
OffsetSteps == 1
\* random.randint(lo, hi) of the planner at lo + k*(hi-lo)/ClipSteps, k = 0..ClipSteps
ClipSteps == 1
\* random.randint(lo, hi) of the heuristic scorer, likewise
ScoreSteps == 1
\* longest synthetic candidate list handed to _remove_overlaps
MaxCands == 3

Den == 840 * 5 * OffsetSteps

Secs(n) == n * Den

Min(a, b) == IF a <= b THEN a ELSE b
Max(a, b) == IF a >= b THEN a ELSE b

\* int(x / d) of Python for d > 0: truncation toward zero
IntTrunc(x, d) == IF x >= 0 THEN x \div d ELSE -((-x) \div d)

\* the points of a grid of `steps` steps on [lo, hi]; steps = 0 pins the draw to lo
GridDraws(lo, hi, steps) ==
    IF steps = 0 THEN {lo}
    ELSE { lo + (k * (hi - lo)) \div steps : k \in 0..steps }

-----------------------------------------------------------------------------
(* Program constants *)

DefaultDuration == 600
MinSegmentDuration == 20
SignificantOverlap == 10
AdjustGap == 1
NumTitleTemplates == 10
ScoreFloor == 30
ScoreCap == 99
DefaultViralityScore == 75

HeuristicFactors == <<"strategic_positioning", "optimal_duration", "enhanced_analysis">>
DefaultFactors == <<"ai_analyzed">>

-----------------------------------------------------------------------------
(* _generate_strategic_segments *)

\* the target clip count, tiered by duration (seconds)
TargetClips(d) ==
    IF d <= 300 THEN Min(5, Max(3, IntTrunc(d, 80)))
    ELSE IF d <= 600 THEN Min(7, Max(5, IntTrunc(d, 90)))
    ELSE Min(8, Max(6, IntTrunc(d, 120)))

\* section_size = duration / target_clips, in 1/Den seconds (exact)
SectionSize(d) == (d * Den) \div TargetClips(d)

\* random.uniform(-section_size * 0.2, section_size * 0.2) at grid point k
StartOffset(d, k) ==
    LET fifth == SectionSize(d) \div 5
    IN  -fifth + (k * (2 * fifth)) \div OffsetSteps

\* the (lo, hi) of the randint that picks clip_duration for section i (0-based)
ClipDurationRange(i, target) ==
    IF i = 0 THEN <<30, 60>>
    ELSE IF i < target \div 3 THEN <<25, 70>>
    ELSE <<20, 90>>

\* random.randint(lo, hi) of section i at grid point k
ClipDuration(i, target, k) ==
    LET r == ClipDurationRange(i, target)
    IN  r[1] + (k * (r[2] - r[1])) \div ClipSteps

\* Window without the clamp of end_time to duration - 1
WindowUnclamped(d, i, start_offset, clip_duration) ==
    LET section_start == i * SectionSize(d)
        start_time == Max(0, section_start + start_offset)
    IN  [start |-> start_time, end |-> start_time + Secs(clip_duration)]

\* the window of section i for one pair of draws
Window(d, i, start_offset, clip_duration) ==
    LET section_start == i * SectionSize(d)
        start_time == Max(0, section_start + start_offset)
        end_time == Min(start_time + Secs(clip_duration), Secs(d - 1))
    IN  [start |-> start_time, end |-> end_time]

\* LongEnough with > for >=
LongEnoughStrict(w) == w.end - w.start > Secs(MinSegmentDuration)

\* LongEnough with the test left out
LongEnoughAlways(w) == TRUE

\* the minimum-duration test of the planner loop
LongEnough(w) == w.end - w.start >= Secs(MinSegmentDuration)

\* all the draws of one call: grid points (offset, clip_duration) per section
PlanDraws(d) == [1..TargetClips(d) -> (0..OffsetSteps) \X (0..ClipSteps)]

\* the candidate list after the loop, in section order
Candidates(d, draws) ==
    LET target == TargetClips(d)
        all == [j \in 1..target |->
                   Window(d, j - 1, StartOffset(d, draws[j][1]),
                          ClipDuration(j - 1, target, draws[j][2]))]
    IN  SelectSeq(all, LongEnough)

\* sorted(segments, key=lambda x: x[0]): a stable insertion sort
RECURSIVE InsertByStart(_, _)
InsertByStart(sorted, w) ==
    IF sorted = <<>> THEN <<w>>
    ELSE IF Head(sorted).start <= w.start
         THEN <<Head(sorted)>> \o InsertByStart(Tail(sorted), w)
         ELSE <<w>> \o sorted

RECURSIVE SortByStart(_)
SortByStart(segs) ==
    IF segs = <<>> THEN <<>>
    ELSE InsertByStart(SortByStart(SubSeq(segs, 1, Len(segs) - 1)), segs[Len(segs)])

-----------------------------------------------------------------------------
(* _remove_overlaps *)

\* OverlapStep that keeps a slightly overlapping candidate without moving its start
OverlapStepUnshifted(acc, cur) ==
    LET last == acc[Len(acc)]
    IN  IF cur.start < last.end - Secs(SignificantOverlap) THEN acc
        ELSE Append(acc, cur)

\* OverlapStep with <= for < in the test for a significant overlap
OverlapStepInclusive(acc, cur) ==
    LET last == acc[Len(acc)]
    IN  IF cur.start < last.end
        THEN IF cur.start <= last.end - Secs(SignificantOverlap)
             THEN acc
             ELSE LET adjusted_start == last.end + Secs(AdjustGap)
                  IN  IF cur.end - adjusted_start >= Secs(MinSegmentDuration)
                      THEN Append(acc, [start |-> adjusted_start, end |-> cur.end])
                      ELSE acc
        ELSE Append(acc, cur)

\* one iteration of the loop: the accepted list after candidate cur is seen
OverlapStep(acc, cur) ==
    LET last == acc[Len(acc)]
    IN  IF cur.start < last.end
        THEN IF cur.start < last.end - Secs(SignificantOverlap)
             THEN acc
             ELSE LET adjusted_start == last.end + Secs(AdjustGap)
                  IN  IF cur.end - adjusted_start >= Secs(MinSegmentDuration)
                      THEN Append(acc, [start |-> adjusted_start, end |-> cur.end])
                      ELSE acc
        ELSE Append(acc, cur)

RECURSIVE OverlapLoop(_, _)
OverlapLoop(acc, rest) ==
    IF rest = <<>> THEN acc
    ELSE OverlapLoop(OverlapStep(acc, Head(rest)), Tail(rest))

RemoveOverlaps(segs) ==
    IF segs = <<>> THEN segs
    ELSE OverlapLoop(<<Head(segs)>>, Tail(segs))

\* the whole of _generate_strategic_segments for one outcome of the draws
GenerateStrategicSegments(d, draws) ==
    RemoveOverlaps(SortByStart(Candidates(d, draws)))

-----------------------------------------------------------------------------
(* _analyze_segment and the two scorers.                                   *)
(* A descriptor keeps start_time, end_time, virality_score, the title (the *)
(* index of its template, 0 for a title that is no template of the pool,   *)
(* and whether it is a string) and engagement_factors; content_type,       *)
(* hook_strength, completion_score and transcript are further independent  *)
(* fields that no operation reads.                                         *)

\* position_in_video = start_time / total_duration, compared with num/den.
\* total is in seconds and not 0 (the division has been made).
PositionBelow(start_time, total, num, den) ==
    IF total > 0 THEN den * start_time < num * Secs(total)
    ELSE den * start_time > num * Secs(total)

PositionAbove(start_time, total, num, den) ==
    IF total > 0 THEN den * start_time > num * Secs(total)
    ELSE den * start_time < num * Secs(total)

\* the context dictionary of _analyze_segment; the division raises
\* ZeroDivisionError when total_duration is 0
ContextRaises(total_duration) == total_duration = 0

Context(start_time, end_time, total_duration, clip_number) ==
    [start_time |-> start_time, end_time |-> end_time,
     duration |-> end_time - start_time, clip_number |-> clip_number,
     total_duration |-> total_duration]

\* the position bonus of the heuristic score: the randint ranges per branch
PositionBonus(ctx, steps) ==
    IF PositionBelow(ctx.start_time, ctx.total_duration, 1, 5)
    THEN GridDraws(10, 20, steps)
    ELSE IF PositionBelow(ctx.start_time, ctx.total_duration, 2, 5)
    THEN GridDraws(5, 15, steps)
    ELSE IF PositionAbove(ctx.start_time, ctx.total_duration, 4, 5)
    THEN GridDraws(3, 12, steps)
    ELSE {0}

\* the duration bonus of the heuristic score
DurationBonus(ctx, steps) ==
    IF Secs(30) <= ctx.duration /\ ctx.duration <= Secs(60)
    THEN GridDraws(5, 15, steps)
    ELSE IF Secs(20) <= ctx.duration /\ ctx.duration < Secs(30)
    THEN GridDraws(2, 8, steps)
    ELSE IF Secs(60) < ctx.duration /\ ctx.duration <= Secs(90)
    THEN GridDraws(0, 5, steps)
    ELSE {0}

\* score = min(max(score, 30), 99)
CapScore(score) == Min(Max(score, ScoreFloor), ScoreCap)

\* the scores _enhanced_fallback_analysis can produce for a context
FallbackScores(ctx, steps) ==
    { CapScore(base + p + b) : base \in GridDraws(60, 80, steps),
                               p \in PositionBonus(ctx, steps),
                               b \in DurationBonus(ctx, steps) }

\* title = random.choice(title_templates): any template of the pool of 10
TitleTemplates == 1..NumTitleTemplates

\* EnhancedFallbackAnalysis with the clip's duration stored as its end_time
EnhancedFallbackAnalysisDurationEnd(ctx, score, template) ==
    [start_time |-> ctx.start_time, end_time |-> ctx.duration,
     virality_score |-> score, title_template |-> template, title_type |-> "str",
     engagement_factors |-> HeuristicFactors]

\* _enhanced_fallback_analysis for one outcome of its draws
EnhancedFallbackAnalysis(ctx, score, template) ==
    [start_time |-> ctx.start_time, end_time |-> ctx.end_time,
     virality_score |-> score, title_template |-> template, title_type |-> "str",
     engagement_factors |-> HeuristicFactors]

\* The reply of the external backend.  kind: "exception" (requests.post
\* raises: connection error, timeout) or "http".  body: "malformed" (no JSON
\* body, or no choices[0].message) or "message".  content and reasoning are
\* the kinds of text of the two fields: "" (missing, empty or whitespace),
\* "null" (JSON null), "prose" (no braces), "badjson" (braces around text
\* json.loads rejects), "json" (an object, whose fields are `analysis`).
TextKinds == {"", "null", "prose", "badjson", "json"}

\* an optional field of the parsed object: <<>> when absent, <<v>> when v
Absent == <<>>
Some(v) == <<v>>

\* the values a parsed virality_score may carry: nothing bounds them
ExternalScores == {ScoreFloor - 1, ScoreFloor, ScoreCap, ScoreCap + 51}

\* the parsed object: each field absent or given; a given title is a string
\* or a value of another JSON type (a number, null)
Payloads ==
    [virality_score : {Absent} \cup {Some(v) : v \in ExternalScores},
     title : {Absent, Some("str"), Some("other")},
     engagement_factors : {Absent, Some(<<"strong_hook">>)}]

NoPayload ==
    [virality_score |-> Absent, title |-> Absent, engagement_factors |-> Absent]

NoReply ==
    [kind |-> "exception", status |-> 0, body |-> "malformed", content |-> "",
     reasoning |-> "", analysis |-> NoPayload]

\* the replies enumerated: the object's fields vary only where it is parsed
Responses ==
    {NoReply}
    \cup [kind : {"http"}, status : {500}, body : {"message"}, content : {"json"},
          reasoning : {""}, analysis : {NoPayload}]
    \cup [kind : {"http"}, status : {200}, body : {"malformed"}, content : {""},
          reasoning : {""}, analysis : {NoPayload}]
    \cup [kind : {"http"}, status : {200}, body : {"message"},
          content : TextKinds \ {"json"}, reasoning : TextKinds \ {"json"},
          analysis : {NoPayload}]
    \cup [kind : {"http"}, status : {200}, body : {"message"},
          content : {"json"}, reasoning : {"", "prose"}, analysis : Payloads]
    \cup [kind : {"http"}, status : {200}, body : {"message"},
          content : {"", "null", "prose", "badjson"}, reasoning : {"json"},
          analysis : Payloads]

\* content.strip() is non-empty
StripNonEmpty(text) == text \in {"prose", "badjson", "json"}

\* dict.get(key, default)
Get(value, default) == IF value = Absent THEN default ELSE value[1]

\* the outcome of a call: a returned descriptor, or an exception (why names
\* the statement that raised)
Returns(value) == [raised |-> FALSE, why |-> "returned", value |-> value]
Raises(why) == [raised |-> TRUE, why |-> why, value |-> <<>>]

\* the descriptor built from the parsed JSON
ExternalDescriptor(ctx, analysis) ==
    [start_time |-> ctx.start_time, end_time |-> ctx.end_time,
     virality_score |-> Get(analysis.virality_score, DefaultViralityScore),
     title_template |-> 0, title_type |-> Get(analysis.title, "str"),
     engagement_factors |-> Get(analysis.engagement_factors, DefaultFactors)]

\* _analyze_with_openrouter for one reply
AnalyzeWithOpenrouter(ctx, resp) ==
    IF resp.kind = "exception" THEN Raises("request")
    ELSE IF resp.status # 200 THEN Raises("status")
    ELSE IF resp.body = "malformed" THEN Raises("parse")
    ELSE IF resp.content = "null" THEN Raises("parse")
    ELSE LET analysis_text == IF StripNonEmpty(resp.content) THEN resp.content
                              ELSE resp.reasoning
         IN  IF analysis_text = "null" THEN Raises("parse")
             ELSE IF analysis_text \in {"", "blank", "prose"} THEN Raises("no_json")
             ELSE IF analysis_text = "badjson" THEN Raises("parse")
             ELSE Returns(ExternalDescriptor(ctx, resp.analysis))

\* CatchExternal without the try/except: the exception propagates
CatchNothing(r) == r

\* TryExternal without the test of openrouter_available
TryExternalAlways(available) == TRUE

\* the try/except of _analyze_segment around the external call: an exception
\* is logged and swallowed
CatchExternal(r) == IF r.raised THEN [r EXCEPT !.raised = FALSE] ELSE r

\* the test that guards the external call
TryExternal(available) == available

\* every way the external call can end for a context
ExternalResults(ctx) == { AnalyzeWithOpenrouter(ctx, resp) : resp \in Responses }

\* the first half of _analyze_segment: the guarded, caught external call.
\* why = "returned": `return analysis`; any other why falls through to the
\* fallback, "skipped" when no call was made
TryOpenrouter(available, ext) ==
    IF TryExternal(available) THEN CatchExternal(ext)
    ELSE [raised |-> FALSE, why |-> "skipped", value |-> <<>>]

-----------------------------------------------------------------------------
(* generate_intelligent_clips as a state machine *)

\* _get_video_info: the probed duration, or the default when the probe fails
GetVideoInfo(probe) == IF probe.ok THEN probe.duration ELSE DefaultDuration

\* the probed durations (seconds): short videos, and videos of every tier of
\* the planner
ShortDurations == {-30, 0, 45, 60}
PlanDurations == {1, 45, 100, 300, 301, 601}

Probes(durations, mayFail) ==
    {[ok |-> TRUE, duration |-> d] : d \in durations}
    \cup (IF mayFail THEN {[ok |-> FALSE, duration |-> 0]} ELSE {})

InitCommon ==
    /\ pc = "info"
    /\ duration = 0
    /\ segments = <<>>
    /\ clips = <<>>
    /\ outcome = "none"
    /\ externalCalls = 0
    /\ returned = <<>>
    /\ raised = FALSE
    /\ candidates = <<>>
    /\ pending = <<>>
    /\ cleaned = <<>>

\* the state after __init__: the credential is configured or not
Init ==
    /\ InitCommon
    /\ openrouter_available \in BOOLEAN

\* Step 1: video_info = self._get_video_info(video_path)
VideoInfo(probes) ==
    /\ pc = "info"
    /\ \E probe \in probes : duration' = GetVideoInfo(probe)
    /\ pc' = "plan"
    /\ UNCHANGED <<openrouter_available, segments, clips, outcome, externalCalls,
                   returned, raised, candidates, pending, cleaned>>

\* Step 2: segments = self._generate_strategic_segments(duration)
Plan ==
    /\ pc = "plan"
    /\ \E draws \in PlanDraws(duration) :
           segments' = GenerateStrategicSegments(duration, draws)
    /\ pc' = "analyze"
    /\ UNCHANGED <<openrouter_available, duration, clips, outcome, externalCalls,
                   returned, raised, candidates, pending, cleaned>>

\* the handler of generate_intelligent_clips: except Exception: return []
Handler ==
    /\ raised' = TRUE
    /\ returned' = <<>>
    /\ pc' = "done"

\* clip_data['title'][:50] of the log line raises TypeError on a title that
\* cannot be sliced
TitleSliceRaises(clip_data) == clip_data.title_type # "str"

\* clips.append(clip_data), then the log line
Collect(clip_data) ==
    /\ clips' = Append(clips, clip_data)
    /\ IF TitleSliceRaises(clip_data) THEN Handler
       ELSE UNCHANGED <<raised, returned, pc>>

\* Step 3, one iteration of the loop: clips.append(self._analyze_segment(...)).
\* _analyze_segment builds the context, returns the external analysis when the
\* guarded call gives one, and the fallback analysis otherwise; an exception
\* leaves the loop for the handler
Analyze(steps, titles) ==
    /\ pc = "analyze"
    /\ Len(clips) < Len(segments)
    /\ LET i == Len(clips) + 1
           seg == segments[i]
           ctx == Context(seg.start, seg.end, duration, i)
       IN  IF ContextRaises(duration)
           THEN Handler /\ outcome' = "context" /\ UNCHANGED <<clips, externalCalls>>
           ELSE \E ext \in (IF TryExternal(openrouter_available)
                            THEN ExternalResults(ctx) ELSE {Raises("skipped")}) :
                  LET r == TryOpenrouter(openrouter_available, ext)
                  IN  /\ outcome' = r.why
                      /\ externalCalls' = IF TryExternal(openrouter_available)
                                          THEN externalCalls + 1 ELSE externalCalls
                      /\ IF r.raised THEN Handler /\ UNCHANGED clips
                         ELSE IF r.why = "returned" THEN Collect(r.value)
                         ELSE \E score \in FallbackScores(ctx, steps),
                                 template \in titles :
                                Collect(EnhancedFallbackAnalysis(ctx, score, template))
    /\ UNCHANGED <<openrouter_available, duration, segments, candidates, pending, cleaned>>

\* return clips
Return ==
    /\ pc = "analyze"
    /\ Len(clips) = Len(segments)
    /\ returned' = clips
    /\ pc' = "done"
    /\ UNCHANGED <<openrouter_available, duration, segments, clips, outcome,
                   externalCalls, raised, candidates, pending, cleaned>>

Probe == VideoInfo(Probes(ShortDurations, FALSE))
Score == Analyze(ScoreSteps, TitleTemplates)

Next == Probe \/ Plan \/ Score \/ Return

\* the pipeline on short videos, with every outcome of the scorers
Spec == Init /\ [][Next]_vars

\* The pipeline without a credential, the heuristic scorer's draws pinned to
\* their lowest value and first template: on videos of every tier of the
\* planner (SpecPlan), and on the default duration of a failed probe
\* (SpecDefault).
InitPlan ==
    /\ InitCommon
    /\ openrouter_available = FALSE

ProbePlan == VideoInfo(Probes(PlanDurations, FALSE))
ProbeFails == VideoInfo(Probes({}, TRUE))
ScorePinned == Analyze(0, {1})

NextPlan == ProbePlan \/ Plan \/ ScorePinned \/ Return

SpecPlan == InitPlan /\ [][NextPlan]_vars

NextDefault == ProbeFails \/ Plan \/ ScorePinned \/ Return

SpecDefault == InitPlan /\ [][NextDefault]_vars

-----------------------------------------------------------------------------
(* _remove_overlaps on its own, one loop iteration per step *)

\* candidate windows as the planner can hand them over: at least the minimum
\* long, starting at 0 or later
SynthWindows ==
    { [start |-> Secs(s), end |-> Secs(s + l)] :
        s \in {0, 15, 20, 25, 30, 40}, l \in {20, 25, 26, 40} }

IsSortedByStart(segs) ==
    \A i \in 1..(Len(segs) - 1) : segs[i].start <= segs[i + 1].start

\* the candidate lists: sorted by start, as sorted() leaves them
SynthLists ==
    { segs \in UNION { [1..n -> SynthWindows] : n \in 0..MaxCands } :
        IsSortedByStart(segs) }

InitOverlap ==
    /\ pc = "overlap_start"
    /\ candidates \in SynthLists
    /\ pending = <<>>
    /\ cleaned = <<>>
    /\ openrouter_available = FALSE
    /\ duration = 0
    /\ segments = <<>>
    /\ clips = <<>>
    /\ outcome = "none"
    /\ externalCalls = 0
    /\ returned = <<>>
    /\ raised = FALSE

\* if not segments: return segments
OverlapEmpty ==
    /\ pc = "overlap_start"
    /\ candidates = <<>>
    /\ segments' = candidates
    /\ pc' = "overlap_done"
    /\ UNCHANGED <<openrouter_available, duration, clips, outcome, externalCalls,
                   returned, raised, candidates, pending, cleaned>>

\* cleaned = [segments[0]], and the loop starts on segments[1:]
OverlapStart ==
    /\ pc = "overlap_start"
    /\ candidates # <<>>
    /\ cleaned' = <<Head(candidates)>>
    /\ pending' = Tail(candidates)
    /\ pc' = "overlap_loop"
    /\ UNCHANGED <<openrouter_available, duration, segments, clips, outcome,
                   externalCalls, returned, raised, candidates>>

\* one iteration: for current in segments[1:]
OverlapIterate ==
    /\ pc = "overlap_loop"
    /\ pending # <<>>
    /\ cleaned' = OverlapStep(cleaned, Head(pending))
    /\ pending' = Tail(pending)
    /\ UNCHANGED <<pc, openrouter_available, duration, segments, clips, outcome,
                   externalCalls, returned, raised, candidates>>

\* return cleaned
OverlapReturn ==
    /\ pc = "overlap_loop"
    /\ pending = <<>>
    /\ segments' = cleaned
    /\ pc' = "overlap_done"
    /\ UNCHANGED <<openrouter_available, duration, clips, outcome, externalCalls,
                   returned, raised, candidates, pending, cleaned>>

NextOverlap == OverlapEmpty \/ OverlapStart \/ OverlapIterate \/ OverlapReturn

SpecOverlap == InitOverlap /\ [][NextOverlap]_vars

-----------------------------------------------------------------------------
(* Properties *)

Planned == pc \in {"analyze", "done"}

\* C1: for every duration > 0 the planned list is sorted ascending by start,
\* every segment lasts at least 20 s, and each segment ends no later than the
\* next one starts.
C1_PlanSortedDisjoint ==
    (Planned /\ duration > 0) =>
        /\ \A i \in 1..Len(segments) :
               segments[i].end - segments[i].start >= Secs(20)
        /\ \A i \in 1..(Len(segments) - 1) :
               /\ segments[i].start <= segments[i + 1].start
               /\ segments[i].end <= segments[i + 1].start

\* a plan in which overlap resolution shifted a start to last.end + 1
C1_Witness ==
    /\ Planned /\ duration > 0 /\ Len(segments) >= 3
    /\ \E i \in 1..(Len(segments) - 1) :
           segments[i + 1].start = segments[i].end + Secs(1)

\* C2: for every duration > 0 every planned segment, shifted ones included,
\* satisfies 0 <= start < end <= duration - 1.
C2_PlanWithinVideo ==
    (Planned /\ duration > 0) =>
        \A i \in 1..Len(segments) :
            /\ 0 <= segments[i].start
            /\ segments[i].start < segments[i].end
            /\ segments[i].end <= Secs(duration - 1)

\* a plan whose last segment was shifted and is clamped to duration - 1
C2_Witness ==
    /\ Planned /\ duration > 0 /\ Len(segments) >= 2
    /\ segments[Len(segments)].end = Secs(duration - 1)
    /\ segments[Len(segments)].start = segments[Len(segments) - 1].end + Secs(1)

\* C3: every descriptor carries its segment's start and end and a
\* virality_score in [30, 99], on the external path and on the fallback path.
C3_ScoreInRange ==
    \A i \in 1..Len(clips) :
        /\ clips[i].start_time = segments[i].start
        /\ clips[i].end_time = segments[i].end
        /\ clips[i].virality_score >= 30
        /\ clips[i].virality_score <= 99

ExternalFailures == {"request", "status", "no_json", "parse"}

\* C4: with the backend configured, a failed external call (request
\* exception, status other than 200, no text, no JSON in the text, parse
\* error) raises nothing and yields the heuristic descriptor of that segment.
C4_FailureFallsBack ==
    (openrouter_available /\ outcome \in ExternalFailures) =>
        /\ ~raised
        /\ Len(clips) >= 1
        /\ clips[Len(clips)].engagement_factors =
               <<"strategic_positioning", "optimal_duration", "enhanced_analysis">>
        /\ clips[Len(clips)].start_time = segments[Len(clips)].start
        /\ clips[Len(clips)].end_time = segments[Len(clips)].end

\* the second segment's call failed to yield JSON after the first one's
\* analysis had been returned
C4_Witness ==
    /\ openrouter_available /\ outcome = "no_json" /\ pc = "analyze"
    /\ Len(clips) = 2
    /\ clips[1].title_template = 0

\* C5: without a credential no external call is made and every descriptor
\* carries the heuristic path's fixed engagement_factors.
C5_NoCredentialNoCall ==
    ~openrouter_available =>
        /\ externalCalls = 0
        /\ \A i \in 1..Len(clips) :
               clips[i].engagement_factors =
                   <<"strategic_positioning", "optimal_duration", "enhanced_analysis">>
        /\ \A i \in 1..Len(returned) :
               returned[i].engagement_factors =
                   <<"strategic_positioning", "optimal_duration", "enhanced_analysis">>

\* a batch of two descriptors returned without a credential
C5_Witness ==
    ~openrouter_available /\ pc = "done" /\ Len(returned) = 2

\* C6 as stated: with duration 600 and no backend, 5 to 7 descriptors.
C6_FiveToSeven ==
    (pc = "done" /\ duration = 600 /\ ~openrouter_available) =>
        (Len(returned) >= 5 /\ Len(returned) <= 7)

\* C6, amended: with duration 600 and no backend, generate_intelligent_clips
\* returns between 4 and 7 descriptors for every outcome of the draws.
C6_FourToSeven ==
    (pc = "done" /\ duration = 600 /\ ~openrouter_available) =>
        /\ ~raised
        /\ Len(returned) >= 4
        /\ Len(returned) <= 7

\* a batch of four for a 600 s video: two candidates were dropped
C6_Witness ==
    pc = "done" /\ duration = 600 /\ ~openrouter_available /\ Len(returned) = 4

\* C7: for a duration of 0 or less the planner yields no segment, nothing is
\* scored, no exception is raised and the empty list is returned.
C7_NonPositiveDurationEmpty ==
    (pc = "done" /\ duration <= 0) =>
        /\ returned = <<>>
        /\ ~raised
        /\ segments = <<>>
        /\ clips = <<>>
        /\ outcome = "none"
        /\ externalCalls = 0

\* the run on a video of duration 0 has returned
C7_Witness == pc = "done" /\ duration = 0 /\ returned = <<>>

\* C8: no two heuristic descriptors of a batch use the same title template.
C8_TemplatesDistinct ==
    \A i, j \in 1..Len(clips) :
        (i < j /\ clips[i].title_template # 0 /\ clips[j].title_template # 0)
            => clips[i].title_template # clips[j].title_template

\* C9: a non-empty result has one descriptor per planned segment, the i-th
\* with the i-th segment's start and end, hence in ascending start order.
C9_ResultMatchesPlan ==
    (pc = "done" /\ returned # <<>>) =>
        /\ Len(returned) = Len(segments)
        /\ \A i \in 1..Len(returned) :
               /\ returned[i].start_time = segments[i].start
               /\ returned[i].end_time = segments[i].end
        /\ \A i \in 1..(Len(returned) - 1) :
               returned[i].start_time <= returned[i + 1].start_time

\* a returned batch mixing a heuristic and an external descriptor, the second
\* segment a shifted one
C9_Witness ==
    /\ pc = "done" /\ Len(returned) = 2
    /\ returned[1].title_template # 0
    /\ returned[2].title_template = 0
    /\ returned[2].start_time = returned[1].end_time + Secs(1)

\* C10: one iteration of _remove_overlaps on candidate cur and last accepted
\* segment last: cur is accepted unchanged when cur.start >= last.end, dropped
\* when cur.start < last.end - 10, and otherwise accepted as
\* (last.end + 1, cur.end) exactly when that lasts at least 20 s; a drop
\* leaves the accepted list as it was.
C10_OverlapCases ==
    [][(pc = "overlap_loop" /\ pending # <<>>) =>
        LET cur == Head(pending)
            last == cleaned[Len(cleaned)]
            shifted == [start |-> last.end + Secs(1), end |-> cur.end]
        IN  /\ pending' = Tail(pending)
            /\ (cur.start >= last.end) => (cleaned' = Append(cleaned, cur))
            /\ (cur.start < last.end - Secs(10)) => (cleaned' = cleaned)
            /\ (cur.start < last.end /\ cur.start >= last.end - Secs(10)) =>
                   IF cur.end - shifted.start >= Secs(20)
                   THEN cleaned' = Append(cleaned, shifted)
                   ELSE cleaned' = cleaned]_vars

\* the second of three candidates was dropped for overlapping by more than
\* 10 s, and the third was then shifted against the first
C10_Witness ==
    /\ pc = "overlap_done" /\ Len(candidates) = 3 /\ Len(segments) = 2
    /\ candidates[2].start < candidates[1].end - Secs(10)
    /\ segments[1] = candidates[1]
    /\ segments[2].start = candidates[1].end + Secs(1)
    /\ segments[2].end = candidates[3].end
    /\ candidates[3].start < candidates[1].end

====
